---------------------------- MODULE Spec2Model ----------------------------
(***************************************************************************)
(* A model of the package env (zestack/env): the ordered key/value store   *)
(* (environ.go), the typed accessors (inner.go), the scoped view (signer)  *)
(* and the process-wide initialisation (InitWithDir).                      *)
(*                                                                         *)
(* Go strings are TLA+ strings; Len, SubSeq and \o act on them character   *)
(* by character.  A Go map is a function whose domain is its key set.      *)
(* The RWMutex e.mu is the variable mu: "W" while a writer holds it.  A    *)
(* reader's critical section is one atomic step that requires mu = "free". *)
(***************************************************************************)
EXTENDS Integers, Sequences, FiniteSets, TLC

VARIABLES
    keys, values,      \* environ.keys, environ.values
    mu,                \* environ.mu: "free" or "W" (write-locked by a Save)
    pending,           \* entries of Save's data not yet visited by its loop
    last, overw,       \* history: latest saved value per key since Clean; an overwrite happened
    res,               \* the result of the call made by the last step, if it was a call
    pos,               \* per cursor: the closure variable pos of environ.iter
    tpc, tidx,         \* per thread: position inside the cursor closure, its index
    ret,               \* per thread: what its last cursor call returned
    got,               \* per thread: the entries its calls returned, in order
    exhausted, tlate,  \* history: cursor has returned ok=false; call began after that
    view,              \* signer.prefix, signer.category
    spc, sret, sgot,   \* signer cursor: position, last return, returned pairs
    skeys, svalues,    \* signer.iter closure variables keys, values
    root,              \* package variable root
    ipc, ierr, idir,   \* InitWithDir: position, err, dir (after filepath.Abs)
    osenv, fs, appEnv  \* os.Environ(), the files below dir, local appEnv

storeVars  == <<keys, values, mu, pending, last, overw>>
cursorVars == <<pos, tpc, tidx, ret, got, exhausted, tlate>>
signerVars == <<view, spc, sret, sgot, skeys, svalues>>
initVars   == <<root, ipc, ierr, idir, osenv, fs, appEnv>>
vars       == <<storeVars, res, cursorVars, signerVars, initVars>>

(***************************************************************************)
(* Bounds of the model.                                                    *)
(***************************************************************************)
MaxBatch    == 2   \* entries in one Save batch
NumThreads  == 3   \* threads advancing cursors
NumCursors  == 2   \* cursors made by iter()
MaxCalls    == 4   \* calls made on one cursor
MaxFallback == 2   \* fallback arguments passed to an accessor
MaxStore    == 3   \* entries of a store drawn as an initial state

Threads == 1..NumThreads
Cursors == 1..NumCursors

EmptyMap == [k \in {} |-> ""]
NoRes    == [op |-> "none"]
NoRet    == [key |-> "", value |-> "", ok |-> FALSE, called |-> FALSE, late |-> FALSE]

\* All maps (Go map[string]string) with at most n keys from K and values from V.
Batches(K, V, n) ==
    UNION {[S -> V] : S \in {T \in SUBSET K : Cardinality(T) <= n}}

(***************************************************************************)
(* strings package                                                         *)
(***************************************************************************)
HasPrefix(s, p) == Len(s) >= Len(p) /\ SubSeq(s, 1, Len(p)) = p

TrimPrefix(s, p) == IF HasPrefix(s, p) THEN SubSeq(s, Len(p) + 1, Len(s)) ELSE s

\* The i-th character of s, as a string of length 1.
Char(s, i) == SubSeq(s, i, i)

\* unicode.IsSpace on the characters the model uses.
IsSpace(c) == c \in {" ", "\t"}

\* strings.TrimSpace
RECURSIVE TrimLeft(_)
TrimLeft(s) ==
    IF Len(s) > 0 /\ IsSpace(Char(s, 1)) THEN TrimLeft(SubSeq(s, 2, Len(s))) ELSE s
RECURSIVE TrimRight(_)
TrimRight(s) ==
    IF Len(s) > 0 /\ IsSpace(Char(s, Len(s))) THEN TrimRight(SubSeq(s, 1, Len(s) - 1)) ELSE s
TrimSpace(s) == TrimRight(TrimLeft(s))

\* The position of the first occurrence of the character c in s, 0 if none.
FirstAt(s, c) ==
    IF \E i \in 1..Len(s) : Char(s, i) = c
    THEN CHOOSE i \in 1..Len(s) : Char(s, i) = c /\ \A j \in 1..(i-1) : Char(s, j) # c
    ELSE 0

\* strings.Split(s, sep) for a separator of one character.
RECURSIVE Split(_, _)
Split(s, sep) ==
    LET i == FirstAt(s, sep)
    IN  IF i = 0 THEN <<s>>
        ELSE <<SubSeq(s, 1, i - 1)>> \o Split(SubSeq(s, i + 1, Len(s)), sep)

\* strings.ToLower on the letters the model uses.
LowerOf(c) ==
    CASE c = "D" -> "d" [] c = "E" -> "e" [] c = "V" -> "v"
      [] c = "P" -> "p" [] c = "R" -> "r" [] c = "O" -> "o"
      [] OTHER -> c
RECURSIVE ToLower(_)
ToLower(s) ==
    IF Len(s) = 0 THEN "" ELSE LowerOf(Char(s, 1)) \o ToLower(SubSeq(s, 2, Len(s)))

(***************************************************************************)
(* strconv and time: the parsers the typed accessors call.                 *)
(***************************************************************************)
Digits == {"0", "1", "2", "3", "4", "5", "6", "7", "8", "9"}
DigitVal(c) ==
    CASE c = "0" -> 0 [] c = "1" -> 1 [] c = "2" -> 2 [] c = "3" -> 3 [] c = "4" -> 4
      [] c = "5" -> 5 [] c = "6" -> 6 [] c = "7" -> 7 [] c = "8" -> 8 [] c = "9" -> 9

AllDigits(s) == Len(s) > 0 /\ \A i \in 1..Len(s) : Char(s, i) \in Digits
RECURSIVE DecVal(_)
DecVal(s) ==
    IF Len(s) = 0 THEN 0
    ELSE 10 * DecVal(SubSeq(s, 1, Len(s) - 1)) + DigitVal(Char(s, Len(s)))

HasSign(s) == Len(s) > 0 /\ Char(s, 1) \in {"+", "-"}
Unsigned(s) == IF HasSign(s) THEN SubSeq(s, 2, Len(s)) ELSE s
SignOf(s) == IF Len(s) > 0 /\ Char(s, 1) = "-" THEN -1 ELSE 1

\* strconv.Atoi: err == nil, and the value.  An optional sign, then decimal
\* digits only (values here are short: no range error).
AtoiOk(s) == AllDigits(Unsigned(s))
AtoiVal(s) == SignOf(s) * DecVal(Unsigned(s))

\* strconv.ParseBool
ParseBoolOk(s) ==
    s \in {"1", "t", "T", "TRUE", "true", "True", "0", "f", "F", "FALSE", "false", "False"}
ParseBoolVal(s) == s \in {"1", "t", "T", "TRUE", "true", "True"}

\* time.ParseDuration on strings without a fraction: an optional sign, then
\* one or more groups of decimal digits and a unit.  Durations are counted in
\* nanoseconds; the units m and h are left out, their values do not fit TLC's
\* integers.
UnitNanos(u) ==
    CASE u = "ns" -> 1 [] u = "us" -> 1000 [] u = "ms" -> 1000000
      [] u = "s" -> 1000000000 [] OTHER -> 0
\* The length of the longest prefix of s made of characters satisfying the
\* test digit (TRUE: digits, FALSE: anything else).
RECURSIVE Run(_, _)
Run(s, digit) ==
    IF Len(s) > 0 /\ ((Char(s, 1) \in Digits) = digit)
    THEN 1 + Run(SubSeq(s, 2, Len(s)), digit)
    ELSE 0
\* <<ok, nanoseconds>> for a sequence of groups.
RECURSIVE DurGroups(_)
DurGroups(s) ==
    IF Len(s) = 0 THEN <<TRUE, 0>>
    ELSE LET n == Run(s, TRUE)
             rest == SubSeq(s, n + 1, Len(s))
             m == Run(rest, FALSE)
             unit == SubSeq(rest, 1, m)
             tail == DurGroups(SubSeq(rest, m + 1, Len(rest)))
         IN  IF n = 0 \/ m = 0 \/ UnitNanos(unit) = 0 \/ ~tail[1]
             THEN <<FALSE, 0>>
             ELSE <<TRUE, DecVal(SubSeq(s, 1, n)) * UnitNanos(unit) + tail[2]>>
ParseDurationOk(s) ==
    \/ Unsigned(s) = "0"
    \/ Len(Unsigned(s)) > 0 /\ DurGroups(Unsigned(s))[1]
ParseDurationVal(s) ==
    IF Unsigned(s) = "0" THEN 0 ELSE SignOf(s) * DurGroups(Unsigned(s))[2]

(***************************************************************************)
(* environ: the store                                                      *)
(***************************************************************************)
\* A scan that starts at the second key.
indexFromSecond(key) ==
    IF \E i \in 2..Len(keys) : keys[i] = key
    THEN (CHOOSE i \in 2..Len(keys) :
              keys[i] = key /\ \A j \in 2..(i-1) : keys[j] # key) - 1
    ELSE -1

\* environ.index: the 0-based position of the first key equal to key, or -1.
index(key) ==
    IF \E i \in 1..Len(keys) : keys[i] = key
    THEN (CHOOSE i \in 1..Len(keys) :
              keys[i] = key /\ \A j \in 1..(i-1) : keys[j] # key) - 1
    ELSE -1

\* A lookup that reports every present key as found.
lookupAnyLen(key) ==
    LET i == index(key)
    IN  IF i > -1 THEN <<values[i+1], Len(values[i+1]) >= 0>> ELSE <<"", FALSE>>

\* environ.lookup
lookup(key) ==
    LET i == index(key)
    IN  IF i > -1 THEN <<values[i+1], Len(values[i+1]) > 0>> ELSE <<"", FALSE>>

\* environ.exists
exists(key) == index(key) > -1

\* environ.Save, e.mu.Lock(): the writer takes the lock; the loop has visited nothing.
SaveLock(data) ==
    /\ mu = "free"
    /\ mu' = "W"
    /\ pending' = data
    /\ last' = [k \in DOMAIN last \cup DOMAIN data |->
                    IF k \in DOMAIN data THEN data[k] ELSE last[k]]
    /\ overw' = FALSE
    /\ UNCHANGED <<keys, values>>

\* One iteration of Save's loop.  Go ranges over a map in an unspecified
\* order: the iteration takes any entry not yet visited.
SaveEntry ==
    /\ mu = "W"
    /\ \E k \in DOMAIN pending :
          LET i == index(k)
          IN  /\ IF i > -1
                 THEN /\ values' = [values EXCEPT ![i+1] = pending[k]]
                      /\ keys' = keys
                      /\ overw' = (overw \/ values[i+1] # pending[k])
                 ELSE /\ keys' = Append(keys, k)
                      /\ values' = Append(values, pending[k])
                      /\ overw' = overw
              /\ pending' = [j \in DOMAIN pending \ {k} |-> pending[j]]
    /\ UNCHANGED <<mu, last>>

\* environ.Save, the deferred e.mu.Unlock() after the loop.
SaveUnlock ==
    /\ mu = "W"
    /\ DOMAIN pending = {}
    /\ mu' = "free"
    /\ UNCHANGED <<keys, values, pending, last, overw>>

\* environ.Clean: both slices are dropped under the write lock.
Clean ==
    /\ mu = "free"
    /\ keys' = <<>>
    /\ values' = <<>>
    /\ last' = EmptyMap
    /\ overw' = FALSE
    /\ UNCHANGED <<mu, pending>>

(***************************************************************************)
(* Initial values of the parts a specification does not use.               *)
(***************************************************************************)
StoreInit ==
    /\ keys = <<>> /\ values = <<>> /\ mu = "free" /\ pending = EmptyMap
    /\ last = EmptyMap /\ overw = FALSE

CursorInit ==
    /\ pos = [c \in Cursors |-> -1]
    /\ tpc = [t \in Threads |-> "idle"]
    /\ tidx = [t \in Threads |-> 0]
    /\ ret = [t \in Threads |-> NoRet]
    /\ got = [t \in Threads |-> <<>>]
    /\ exhausted = [c \in Cursors |-> FALSE]
    /\ tlate = [t \in Threads |-> FALSE]

SignerInit ==
    /\ view = [prefix |-> "", category |-> ""]
    /\ spc = "idle" /\ sret = NoRet /\ sgot = <<>>
    /\ skeys = <<>> /\ svalues = <<>>

ProcInit ==
    /\ root = "" /\ ipc = "idle" /\ ierr = "none" /\ idir = ""
    /\ osenv = <<>> /\ fs = EmptyMap /\ appEnv = ""

(***************************************************************************)
(* Spec: the store under Save, Clean, Lookup and Exists.                   *)
(***************************************************************************)
StoreKeys == {"A", "B", "C"}
StoreVals == {"", "1", "2"}

Save(data) ==
    /\ SaveLock(data)
    /\ res' = NoRes
    /\ UNCHANGED <<cursorVars, signerVars, initVars>>

SaveStep ==
    /\ SaveEntry
    /\ res' = NoRes
    /\ UNCHANGED <<cursorVars, signerVars, initVars>>

SaveDone ==
    /\ SaveUnlock
    /\ res' = NoRes
    /\ UNCHANGED <<cursorVars, signerVars, initVars>>

CleanCall ==
    /\ Clean
    /\ res' = NoRes
    /\ UNCHANGED <<cursorVars, signerVars, initVars>>

\* inner.Lookup on the environ: e.lookup under the read lock.
LookupCall(key) ==
    /\ mu = "free"
    /\ res' = [op |-> "Lookup", key |-> key,
               value |-> lookup(key)[1], found |-> lookup(key)[2]]
    /\ UNCHANGED <<storeVars, cursorVars, signerVars, initVars>>

\* inner.Exists on the environ: e.exists under the read lock.
ExistsCall(key) ==
    /\ mu = "free"
    /\ res' = [op |-> "Exists", key |-> key, found |-> exists(key)]
    /\ UNCHANGED <<storeVars, cursorVars, signerVars, initVars>>

Init == StoreInit /\ res = NoRes /\ CursorInit /\ SignerInit /\ ProcInit

Next ==
    \/ \E data \in Batches(StoreKeys, StoreVals, MaxBatch) : Save(data)
    \/ SaveStep
    \/ SaveDone
    \/ CleanCall
    \/ \E key \in StoreKeys : LookupCall(key)
    \/ \E key \in StoreKeys : ExistsCall(key)

Spec == Init /\ [][Next]_vars

\* C1: Lookup(k) returns (v, true) iff k is present with a non-empty value v;
\* a key present with an empty value gives ("", false) while Exists(k) is
\* true; an absent key gives ("", false) and Exists(k) is false.
C1_LookupExists ==
    /\ res.op = "Lookup" =>
          LET at == {i \in 1..Len(keys) : keys[i] = res.key}
          IN  /\ res.found <=> \E i \in at : values[i] # "" /\ res.value = values[i]
              /\ ~res.found => res.value = ""
    /\ res.op = "Exists" =>
          (res.found <=> \E i \in 1..Len(keys) : keys[i] = res.key)

\* A Lookup of a key stored with the empty value has just returned ("", false).
C1_Witness ==
    /\ res.op = "Lookup" /\ ~res.found
    /\ \E i \in 1..Len(keys) : keys[i] = res.key /\ values[i] = ""

\* C2: after any sequence of Save and Clean calls no two entries share a key,
\* keys and values have the same length, and (no Save being in progress) the
\* present keys are exactly those saved since the last Clean, each with the
\* value of the most recent Save that contained it.
C2_StoreInvariant ==
    /\ Len(keys) = Len(values)
    /\ \A i, j \in 1..Len(keys) : i # j => keys[i] # keys[j]
    /\ mu = "free" =>
          /\ {keys[i] : i \in 1..Len(keys)} = DOMAIN last
          /\ \A i \in 1..Len(keys) : values[i] = last[keys[i]]

\* Save({A:1}) then Save({A:2}) has completed: one entry, A = 2, overwritten in place.
C2_Witness ==
    /\ mu = "free" /\ overw
    /\ keys = <<"A">> /\ values = <<"2">>

(***************************************************************************)
(* environ.iter: the cursor closure.  A call is two steps: the atomic      *)
(* increment of pos with the bounds test on len(e.keys), made without the  *)
(* lock, and then the read of both slices under the read lock.             *)
(***************************************************************************)
MaxInt32 == 2147483647
MinInt32 == -MaxInt32 - 1

\* atomic.AddInt32(&pos, 1): the new value, wrapping as int32 does.
AddInt32(p) == IF p = MaxInt32 THEN MinInt32 ELSE p + 1

\* A bounds test that admits index = len(e.keys).
iterPastEndOffByOne(i) == i > Len(keys)

\* index >= len(e.keys), read without the lock.
iterPastEnd(i) == i >= Len(keys)

\* e.keys[index], e.values[index]: in range for both slices, or a run-time panic.
iterInRange(i) == 0 <= i /\ i < Len(keys) /\ i < Len(values)

\* The cursor that thread t advances.
CursorOf(t) == ((t - 1) % NumCursors) + 1

\* First half of a call by thread t: lines 86-89.
IterAdmit(t) ==
    LET c == CursorOf(t)
        i == AddInt32(pos[c])
    IN  /\ tpc[t] = "idle"
        /\ pos[c] < MaxCalls - 1
        /\ pos' = [pos EXCEPT ![c] = i]
        /\ IF iterPastEnd(i)
           THEN /\ ret' = [ret EXCEPT ![t] = [key |-> "", value |-> "", ok |-> FALSE,
                                              called |-> TRUE, late |-> exhausted[c]]]
                /\ exhausted' = [exhausted EXCEPT ![c] = TRUE]
                /\ UNCHANGED <<tpc, tidx, tlate>>
           ELSE /\ tpc' = [tpc EXCEPT ![t] = "rlock"]
                /\ tidx' = [tidx EXCEPT ![t] = i]
                /\ tlate' = [tlate EXCEPT ![t] = exhausted[c]]
                /\ UNCHANGED <<ret, exhausted>>

\* Second half: lines 90-92, e.mu.RLock() and the two indexed reads.
IterRead(t) ==
    /\ tpc[t] = "rlock"
    /\ mu = "free"
    /\ IF iterInRange(tidx[t])
       THEN /\ ret' = [ret EXCEPT ![t] = [key |-> keys[tidx[t] + 1],
                                          value |-> values[tidx[t] + 1], ok |-> TRUE,
                                          called |-> TRUE, late |-> tlate[t]]]
            /\ tpc' = [tpc EXCEPT ![t] = "idle"]
       ELSE /\ tpc' = [tpc EXCEPT ![t] = "panic"]
            /\ UNCHANGED ret
    /\ UNCHANGED <<pos, tidx, exhausted, tlate>>

(***************************************************************************)
(* SpecCursor: cursors advanced by threads while the store is saved to and *)
(* cleaned.                                                                *)
(***************************************************************************)
CursorKeys == {"A", "B"}
CursorVals == {"1"}

\* The threads that share cursor 1.
CursorThreads == {t \in Threads : CursorOf(t) = 1}

\* An unrecovered panic ends the process: nothing runs after it.
Running == \A t \in Threads : tpc[t] # "panic"

CursorSave(data) ==
    /\ Running
    /\ SaveLock(data)
    /\ UNCHANGED <<res, cursorVars, signerVars, initVars>>

CursorSaveStep ==
    /\ Running
    /\ SaveEntry
    /\ UNCHANGED <<res, cursorVars, signerVars, initVars>>

CursorSaveDone ==
    /\ Running
    /\ SaveUnlock
    /\ UNCHANGED <<res, cursorVars, signerVars, initVars>>

CursorClean ==
    /\ Running
    /\ Clean
    /\ UNCHANGED <<res, cursorVars, signerVars, initVars>>

NextAdmit(t) ==
    /\ Running
    /\ IterAdmit(t)
    /\ UNCHANGED <<storeVars, res, got, signerVars, initVars>>

NextRead(t) ==
    /\ Running
    /\ IterRead(t)
    /\ UNCHANGED <<storeVars, res, got, signerVars, initVars>>

NextCursor ==
    \/ \E data \in Batches(CursorKeys, CursorVals, MaxBatch) : CursorSave(data)
    \/ CursorSaveStep
    \/ CursorSaveDone
    \/ CursorClean
    \/ \E t \in CursorThreads : NextAdmit(t)
    \/ \E t \in CursorThreads : NextRead(t)

SpecCursor == Init /\ [][NextCursor]_vars

\* C6: a cursor step never reads the backing arrays at an index out of
\* bounds: no interleaving with Clean makes next() fault.
C6_NoOutOfBoundsRead == \A t \in Threads : tpc[t] # "panic"

\* C7: once a cursor has returned ok=false, every later call on it returns
\* ok=false, whatever Save and Clean calls come between.
C7_ExhaustedStays == \A t \in Threads : ret[t].ok => ~ret[t].late

(***************************************************************************)
(* SpecIter: cursors of separate iter() calls advanced by parallel threads *)
(* over a store that is not mutated.  The store is any store Save can      *)
(* build: distinct keys, one value per key.                                *)
(***************************************************************************)
IterKeys == {"A", "B", "C"}
IterVals == {"1", "2"}

\* The sequences of at most MaxStore distinct keys from K.
KeyOrders(K) ==
    {ks \in UNION {[1..n -> K] : n \in 0..MaxStore} :
        \A i, j \in 1..Len(ks) : i # j => ks[i] # ks[j]}

StoreIs(ks, vs) ==
    /\ keys = ks /\ values = vs /\ mu = "free" /\ pending = EmptyMap
    /\ last = [k \in {ks[i] : i \in 1..Len(ks)} |->
                  vs[CHOOSE i \in 1..Len(ks) : ks[i] = k]]
    /\ overw = FALSE

InitIter ==
    /\ \E ks \in KeyOrders(IterKeys) : \E vs \in [1..Len(ks) -> IterVals] : StoreIs(ks, vs)
    /\ res = NoRes /\ CursorInit /\ SignerInit /\ ProcInit

IterNextAdmit(t) ==
    /\ IterAdmit(t)
    /\ UNCHANGED <<storeVars, res, got, signerVars, initVars>>

IterNextRead(t) ==
    /\ IterRead(t)
    /\ got' = IF tpc'[t] = "idle"
              THEN [got EXCEPT ![t] = Append(@, <<ret'[t].key, ret'[t].value>>)]
              ELSE got
    /\ UNCHANGED <<storeVars, res, signerVars, initVars>>

NextIter ==
    \/ \E t \in Threads : IterNextAdmit(t)
    \/ \E t \in Threads : IterNextRead(t)

SpecIter == InitIter /\ [][NextIter]_vars

\* The 0-based position of a stored key.
PosOf(k) == (CHOOSE i \in 1..Len(keys) : keys[i] = k) - 1
\* The positions thread t has been given so far, and those given on cursor c.
GivenTo(t) == {PosOf(got[t][j][1]) : j \in 1..Len(got[t])}
InFlight(c) == {tidx[t] : t \in {u \in Threads : CursorOf(u) = c /\ tpc[u] = "rlock"}}
GivenOn(c) == UNION {GivenTo(t) : t \in {u \in Threads : CursorOf(u) = c}}

\* C10: over an unmutated store of n entries, under any interleaving of the
\* threads, each thread receives stored (key, value) pairs in strictly
\* ascending insertion order; no entry of a cursor is returned twice (to one
\* thread or to two) and none is skipped; ok=false is returned only when all
\* n entries have been handed out, so a cursor advanced by one thread has
\* returned all n entries in order before its ok=false; no call faults.
C10_IndependentCursors ==
    /\ \A t \in Threads : tpc[t] # "panic"
    /\ \A t \in Threads : \A j \in 1..Len(got[t]) :
          /\ \E i \in 1..Len(keys) : got[t][j] = <<keys[i], values[i]>>
          /\ j > 1 => PosOf(got[t][j-1][1]) < PosOf(got[t][j][1])
    /\ \A t, u \in Threads :
          (t # u /\ CursorOf(t) = CursorOf(u)) =>
              /\ GivenTo(t) \cap GivenTo(u) = {}
              /\ (tpc[u] = "rlock" => tidx[u] \notin GivenTo(t))
              /\ (tpc[t] = "rlock" /\ tpc[u] = "rlock" => tidx[t] # tidx[u])
    /\ \A c \in Cursors : \A i \in 0..(Len(keys) - 1) :
          i <= pos[c] => i \in GivenOn(c) \cup InFlight(c)
    /\ \A t \in Threads :
          (ret[t].called /\ ~ret[t].ok) =>
              /\ pos[CursorOf(t)] >= Len(keys)
              /\ ({u \in Threads : CursorOf(u) = CursorOf(t)} = {t} =>
                     got[t] = [i \in 1..Len(keys) |-> <<keys[i], values[i]>>])

\* A store of three entries: two threads sharing one cursor have each received
\* entries, all three between them, while the thread alone on another cursor
\* has received all three in order and then ok=false.
C10_Witness ==
    /\ Len(keys) = 3
    /\ \E t, u \in Threads :
          /\ t # u /\ CursorOf(t) = CursorOf(u)
          /\ got[t] # <<>> /\ got[u] # <<>>
          /\ GivenTo(t) \cup GivenTo(u) = {0, 1, 2}
    /\ \E t \in Threads :
          /\ {u \in Threads : CursorOf(u) = CursorOf(t)} = {t}
          /\ Len(got[t]) = 3 /\ ret[t].called /\ ~ret[t].ok

(***************************************************************************)
(* signer: the scoped view (prefix, category) over the environ.            *)
(***************************************************************************)
\* The key lookup2 and exists2 build: category and prefix prepended when non-empty.
scopedKey(category, key) ==
    LET k1 == IF category # "" THEN category \o "_" \o key ELSE key
    IN  IF view.prefix # "" THEN view.prefix \o "_" \o k1 ELSE k1

\* signer.lookup2: s.environ.Lookup of the scoped key.
signerLookup2(category, key) == lookup(scopedKey(category, key))

\* A lookup that tries the category form only.
signerLookupNoFallback(key) == signerLookup2(view.category, key)

\* signer.lookup
signerLookup(key) ==
    LET r == signerLookup2(view.category, key)
    IN  IF r[2] \/ view.category = "" THEN r ELSE signerLookup2("", key)

\* signer.exists2
signerExists2(category, key) == exists(scopedKey(category, key))

\* signer.exists
signerExists(key) ==
    LET e == signerExists2(view.category, key)
    IN  IF e \/ view.category = "" THEN e ELSE signerExists2("", key)

\* A scan prefix that leaves the category out.
iterPrefixBare ==
    IF view.prefix # "" THEN view.prefix \o "_" ELSE ""

\* signer.iter, lines 306-312: the prefix the scan matches.
iterPrefix ==
    LET p == IF view.prefix # "" THEN view.prefix \o "_" ELSE ""
    IN  IF view.category # "" THEN p \o view.category \o "_" ELSE p

\* The closure of signer.iter runs on thread 1, which advances the environ
\* cursor `next` made at line 305.  next is never nil, so lines 317-323 never
\* run.  One turn of the loop, first half: next() up to its bounds test.
SignerAdmit ==
    /\ spc \in {"idle", "loop"}
    /\ IterAdmit(1)
    /\ IF tpc'[1] = "idle"
       THEN /\ sret' = [key |-> "", value |-> "", ok |-> FALSE, called |-> TRUE, late |-> FALSE]
            /\ spc' = "idle"
       ELSE /\ spc' = "read"
            /\ sret' = sret
    /\ UNCHANGED <<view, sgot, skeys, svalues>>

\* Second half: next() returns (k, v, true); lines 330-336.  The pair recorded
\* at line 335 holds the result variable value, which is still "".
SignerRead ==
    /\ spc = "read"
    /\ IterRead(1)
    /\ IF tpc'[1] = "panic"
       THEN /\ spc' = "panic"
            /\ UNCHANGED <<sret, sgot, skeys, svalues>>
       ELSE LET k == ret'[1].key
                v == ret'[1].value
            IN  IF HasPrefix(k, iterPrefix)
                THEN /\ sret' = [key |-> TrimPrefix(k, iterPrefix), value |-> v, ok |-> TRUE,
                                 called |-> TRUE, late |-> FALSE]
                     /\ sgot' = Append(sgot, <<TrimPrefix(k, iterPrefix), v>>)
                     /\ spc' = "idle"
                     /\ UNCHANGED <<skeys, svalues>>
                ELSE /\ IF view.prefix # "" /\ HasPrefix(k, view.prefix)
                        THEN /\ skeys' = Append(skeys, TrimPrefix(k, view.prefix))
                             /\ svalues' = Append(svalues, "")
                        ELSE UNCHANGED <<skeys, svalues>>
                     /\ spc' = "loop"
                     /\ UNCHANGED <<sret, sgot>>
    /\ UNCHANGED view

(***************************************************************************)
(* SpecSigner: a scoped view over a store that is not mutated.             *)
(***************************************************************************)
SignerKeys     == {"P_C_K", "P_K", "C_K", "K", "PX"}
SignerPrefixes == {"", "P"}
SignerCats     == {"", "C"}
SignerAsked    == {"K", "C_K"}
\* A stored value is empty or a value that names its key.
ValOf(k) == "v." \o k

InitSigner ==
    /\ \E ks \in KeyOrders(SignerKeys) :
          \E vs \in {f \in [1..Len(ks) -> {""} \cup {ValOf(k) : k \in SignerKeys}] :
                        \A i \in 1..Len(ks) : f[i] \in {"", ValOf(ks[i])}} :
              StoreIs(ks, vs)
    /\ res = NoRes /\ CursorInit /\ ProcInit
    /\ view \in [prefix : SignerPrefixes, category : SignerCats]
    /\ spc = "idle" /\ sret = NoRet /\ sgot = <<>>
    /\ skeys = <<>> /\ svalues = <<>>

SignerLookupCall(key) ==
    /\ mu = "free"
    /\ res' = [op |-> "SignerLookup", key |-> key,
               value |-> signerLookup(key)[1], found |-> signerLookup(key)[2]]
    /\ UNCHANGED <<storeVars, cursorVars, signerVars, initVars>>

SignerExistsCall(key) ==
    /\ mu = "free"
    /\ res' = [op |-> "SignerExists", key |-> key, found |-> signerExists(key)]
    /\ UNCHANGED <<storeVars, cursorVars, signerVars, initVars>>

SignerNextAdmit ==
    /\ SignerAdmit
    /\ res' = NoRes
    /\ UNCHANGED <<storeVars, got, initVars>>

SignerNextRead ==
    /\ SignerRead
    /\ res' = NoRes
    /\ UNCHANGED <<storeVars, got, initVars>>

NextSigner ==
    \/ \E key \in SignerAsked : SignerLookupCall(key)
    \/ \E key \in SignerAsked : SignerExistsCall(key)
    \/ SignerNextAdmit
    \/ SignerNextRead

SpecSigner == InitSigner /\ [][NextSigner]_vars

\* The stored name of key under (P, C): empty segments go with their underscore.
ScopedName(P, C, key) ==
    (IF P = "" THEN "" ELSE P \o "_") \o (IF C = "" THEN "" ELSE C \o "_") \o key
Present(k) == \E i \in 1..Len(keys) : keys[i] = k
Stored(k) == values[CHOOSE i \in 1..Len(keys) : keys[i] = k]
\* The resolution of a stored name: (value, true) when present and non-empty.
Resolve(k) == IF Present(k) /\ Stored(k) # "" THEN <<Stored(k), TRUE>> ELSE <<"", FALSE>>

\* C5: with a non-empty category, lookup(key) is the resolution of P_C_key
\* when that is found and otherwise the resolution of P_key; with an empty
\* category only P_key is tried.  exists(key) follows the same rule with key
\* presence.
C5_ScopedLookup ==
    LET P == view.prefix
        C == view.category
        full == ScopedName(P, C, res.key)
        bare == ScopedName(P, "", res.key)
    IN  /\ res.op = "SignerLookup" =>
              <<res.value, res.found>> =
                  IF C # "" /\ Resolve(full)[2] THEN Resolve(full) ELSE Resolve(bare)
        /\ res.op = "SignerExists" =>
              (res.found <=> IF C # "" /\ Present(full) THEN TRUE ELSE Present(bare))

\* View (P, C), P_C_K not found (absent or empty) and P_K stored: lookup(K)
\* has returned the value of P_K.
C5_Witness ==
    /\ view = [prefix |-> "P", category |-> "C"]
    /\ res.op = "SignerLookup" /\ res.key = "K"
    /\ ~Resolve("P_C_K")[2]
    /\ res.found /\ res.value = ValOf("P_K")

\* The pairs a full drain must yield: the entries whose key starts with the
\* full scoped prefix, in store order, the prefix removed.
FullPrefix ==
    (IF view.prefix = "" THEN "" ELSE view.prefix \o "_")
        \o (IF view.category = "" THEN "" ELSE view.category \o "_")
InScope(i) == HasPrefix(keys[i], FullPrefix)
RECURSIVE ScopedFrom(_)
ScopedFrom(i) ==
    IF i > Len(keys) THEN <<>>
    ELSE (IF InScope(i)
          THEN <<<<SubSeq(keys[i], Len(FullPrefix) + 1, Len(keys[i])), values[i]>>>>
          ELSE <<>>) \o ScopedFrom(i + 1)

\* C8: over an unmutated store the view's cursor yields, in store order,
\* exactly the pairs (key without the full scoped prefix, stored value) of the
\* keys that start with the full scoped prefix: what it has yielded is always
\* a prefix of that list, and the whole list once it has returned ok=false.
C8_ScopedIterate ==
    LET want == ScopedFrom(1)
    IN  /\ spc # "panic"
        /\ Len(sgot) <= Len(want)
        /\ sgot = SubSeq(want, 1, Len(sgot))
        /\ (sret.called /\ ~sret.ok) => sgot = want

\* View (P, C) over a store holding P_C_K and the bare-prefix key P_K: the
\* drained cursor has yielded only (K, value of P_C_K); P_K went to the
\* closure's side list.
C8_Witness ==
    /\ view = [prefix |-> "P", category |-> "C"]
    /\ Present("P_C_K") /\ Present("P_K") /\ Stored("P_K") # ""
    /\ sret.called /\ ~sret.ok
    /\ sgot = <<<<"K", Stored("P_C_K")>>>>
    /\ skeys # <<>>

(***************************************************************************)
(* inner: the typed accessors.  Each takes the pair r its lookup function  *)
(* returned and the variadic fallback as a sequence.                       *)
(***************************************************************************)
\* `for _, value := range fallback { return value }` and then the zero value.
firstOr(fb, zero) == IF Len(fb) > 0 THEN fb[1] ELSE zero

\* inner.String
innerString(r, fb) == IF r[2] THEN r[1] ELSE firstOr(fb, "")

\* inner.Bytes: []byte(value), a sequence of characters.
innerBytes(r, fb) ==
    IF r[2] THEN [i \in 1..Len(r[1]) |-> Char(r[1], i)] ELSE firstOr(fb, <<>>)

\* An Int that returns the parser's zero when the value does not parse.
innerIntIgnoreErr(r, fb) ==
    IF r[2] THEN (IF AtoiOk(r[1]) THEN AtoiVal(r[1]) ELSE 0) ELSE firstOr(fb, 0)

\* inner.Int
innerInt(r, fb) ==
    IF r[2] /\ AtoiOk(r[1]) THEN AtoiVal(r[1]) ELSE firstOr(fb, 0)

\* inner.Duration: time.Duration(n) of a plain integer, else ParseDuration.
innerDuration(r, fb) ==
    IF r[2] /\ AtoiOk(r[1]) THEN AtoiVal(r[1])
    ELSE IF r[2] /\ ParseDurationOk(r[1]) THEN ParseDurationVal(r[1])
    ELSE firstOr(fb, 0)

\* inner.Bool
innerBool(r, fb) ==
    IF r[2] /\ ParseBoolOk(r[1]) THEN ParseBoolVal(r[1]) ELSE firstOr(fb, FALSE)

\* inner.List
innerList(r, fb) ==
    IF r[2]
    THEN LET parts == Split(r[1], ",")
         IN  [i \in 1..Len(parts) |-> TrimSpace(parts[i])]
    ELSE firstOr(fb, <<>>)

(***************************************************************************)
(* SpecTyped: the typed accessors of the environ over any store of one     *)
(* key.                                                                    *)
(***************************************************************************)
TypedKeys  == {"K"}
TypedAsked == {"K", "J"}
TypedVals  == {"", "5", "-3", "2s", "5ms", "1s5ms", "t", "false", "x", "5x", "a, b ,c"}

\* The fallback lists of at most MaxFallback values from V.
Fallbacks(V) == UNION {[1..n -> V] : n \in 0..MaxFallback}

InitTyped ==
    /\ \E ks \in KeyOrders(TypedKeys) : \E vs \in [1..Len(ks) -> TypedVals] : StoreIs(ks, vs)
    /\ res = NoRes /\ CursorInit /\ SignerInit /\ ProcInit

Called(op, key, fb, value) ==
    /\ mu = "free"
    /\ res' = [op |-> op, key |-> key, fallback |-> fb, value |-> value]
    /\ UNCHANGED <<storeVars, cursorVars, signerVars, initVars>>

StringCall(key, fb)   == Called("String", key, fb, innerString(lookup(key), fb))
BytesCall(key, fb)    == Called("Bytes", key, fb, innerBytes(lookup(key), fb))
IntCall(key, fb)      == Called("Int", key, fb, innerInt(lookup(key), fb))
DurationCall(key, fb) == Called("Duration", key, fb, innerDuration(lookup(key), fb))
BoolCall(key, fb)     == Called("Bool", key, fb, innerBool(lookup(key), fb))
ListCall(key, fb)     == Called("List", key, fb, innerList(lookup(key), fb))

NextTyped ==
    \/ \E key \in TypedAsked : \E fb \in Fallbacks({"f1", "f2"}) : StringCall(key, fb)
    \/ \E key \in TypedAsked : \E fb \in Fallbacks({<<"x">>, <<"y", "z">>}) : BytesCall(key, fb)
    \/ \E key \in TypedAsked : \E fb \in Fallbacks({7, 8}) : IntCall(key, fb)
    \/ \E key \in TypedAsked : \E fb \in Fallbacks({7, 8}) : DurationCall(key, fb)
    \/ \E key \in TypedAsked : \E fb \in Fallbacks({TRUE, FALSE}) : BoolCall(key, fb)
    \/ \E key \in TypedAsked : \E fb \in Fallbacks({<<"x">>, <<"y", "z">>}) : ListCall(key, fb)

SpecTyped == InitTyped /\ [][NextTyped]_vars

\* The first supplied fallback, else the type's zero value.
Fallen(zero) == IF res.fallback # <<>> THEN res.fallback[1] ELSE zero

\* C9: when the key is not found (absent, or stored empty), or for Int,
\* Duration and Bool the value does not parse, an accessor returns the first
\* supplied fallback, and the type's zero value when none is supplied; the
\* store still holds exactly what it held.
C9_AccessorFallback ==
    LET v == Resolve(res.key)[1]
        missing == ~Resolve(res.key)[2]
    IN  /\ res.op = "String" /\ missing => res.value = Fallen("")
        /\ res.op = "Bytes" /\ missing => res.value = Fallen(<<>>)
        /\ res.op = "List" /\ missing => res.value = Fallen(<<>>)
        /\ res.op = "Int" /\ (missing \/ ~AtoiOk(v)) => res.value = Fallen(0)
        /\ res.op = "Duration" /\ (missing \/ (~AtoiOk(v) /\ ~ParseDurationOk(v)))
               => res.value = Fallen(0)
        /\ res.op = "Bool" /\ (missing \/ ~ParseBoolOk(v)) => res.value = Fallen(FALSE)
        /\ Len(keys) = Len(values)
        /\ {keys[i] : i \in 1..Len(keys)} = DOMAIN last
        /\ \A i \in 1..Len(keys) : values[i] = last[keys[i]]

\* Int on a key stored with a non-empty value that is no integer, called with
\* two different fallbacks, has returned the first.
C9_Witness ==
    /\ res.op = "Int" /\ Present(res.key) /\ Stored(res.key) = "5x"
    /\ Len(res.fallback) = 2 /\ res.fallback[1] # res.fallback[2]
    /\ res.value = res.fallback[1]

\* The parsed results the accessors give on stored values.
TypedExamples ==
    /\ res.op = "List" /\ Resolve(res.key)[1] = "a, b ,c" => res.value = <<"a", "b", "c">>
    /\ res.op = "Duration" /\ Resolve(res.key)[1] = "2s" => res.value = 2000000000
    /\ res.op = "Duration" /\ Resolve(res.key)[1] = "1s5ms" => res.value = 1005000000
    /\ res.op = "Duration" /\ Resolve(res.key)[1] = "5" => res.value = 5
    /\ res.op = "Int" /\ Resolve(res.key)[1] = "-3" => res.value = -3
    /\ res.op = "Bool" /\ Resolve(res.key)[1] = "t" => res.value = TRUE
    /\ res.op = "Bool" /\ Resolve(res.key)[1] = "false" => res.value = FALSE
    /\ res.op = "Bytes" /\ Resolve(res.key)[1] = "5x" => res.value = <<"5", "x">>

(***************************************************************************)
(* The package level: InitWithDir and loadEnv over the global environ.     *)
(* A file is [kind, data]: kind "missing" (os.ErrNotExist), "bad" (any     *)
(* other read or parse error) or "ok" with the map godotenv.Read returns.  *)
(* fs holds the files of the resolved directory by base name.              *)
(***************************************************************************)
Missing  == [kind |-> "missing", data |-> EmptyMap]
Bad      == [kind |-> "bad", data |-> EmptyMap]
File(m)  == [kind |-> "ok", data |-> m]
ReadFile(name) == IF name \in DOMAIN fs THEN fs[name] ELSE Missing

\* filepath.Abs(dir) with working directory wd ("" when os.Getwd fails):
\* <<path, err>>.
Abs(dir, wd) ==
    IF HasPrefix(dir, "/") THEN <<dir, "nil">>
    ELSE IF wd = "" THEN <<"", "getwd">>
    ELSE <<IF dir = "." THEN wd ELSE wd \o "/" \o dir, "nil">>

\* Lines 108-114: the map built from os.Environ(); every entry holds a "=".
\* strings.SplitN(value, "=", 2), both parts trimmed; a later entry overwrites.
RECURSIVE ParseEnviron(_)
ParseEnviron(entries) ==
    IF Len(entries) = 0 THEN EmptyMap
    ELSE LET e == entries[Len(entries)]
             at == FirstAt(e, "=")
             key == TrimSpace(SubSeq(e, 1, at - 1))
             val == TrimSpace(SubSeq(e, at + 1, Len(e)))
             rest == ParseEnviron(SubSeq(entries, 1, Len(entries) - 1))
         IN  [k \in DOMAIN rest \cup {key} |-> IF k = key THEN val ELSE rest[k]]

\* A suffix that keeps the case of APP_ENV.
envSuffixAsIs(a) == "." \o a

\* Line 127: "." + strings.ToLower(appEnv)
envSuffix(a) == "." \o ToLower(a)

\* The file a stage of InitWithDir loads: loadEnv's filename and filename + ".local".
FileOf(stage) ==
    CASE stage = "env"      -> ".env"
      [] stage = "envlocal" -> ".env" \o ".local"
      [] stage = "app"      -> ".env" \o envSuffix(appEnv)
      [] stage = "applocal" -> ".env" \o envSuffix(appEnv) \o ".local"

Following(stage) ==
    CASE stage = "os"       -> "env"
      [] stage = "env"      -> "envlocal"
      [] stage = "envlocal" -> "appenv"
      [] stage = "app"      -> "applocal"

\* A deferred function that resets root and leaves the store as it is.
rollbackRootOnly ==
    /\ root' = ""
    /\ UNCHANGED storeVars

\* Lines 95-97, the deferred function when err != nil.
rollback ==
    /\ root' = ""
    /\ Clean

\* After a stage: on to the next one; after the last, `return` with err == nil
\* and the deferred function commits root (line 99).
Proceed ==
    IF ipc = "applocal"
    THEN /\ ipc' = "idle" /\ ierr' = "nil" /\ root' = idir
    ELSE /\ ipc' = Following(ipc) /\ UNCHANGED <<ierr, root>>

\* Lines 89-92: filepath.Abs fails and InitWithDir returns before the defer.
InitAbsFail(dir, wd) ==
    /\ ipc = "idle"
    /\ Abs(dir, wd)[2] # "nil"
    /\ ierr' = Abs(dir, wd)[2]
    /\ UNCHANGED <<root, ipc, idir, osenv, fs, appEnv>>
    /\ UNCHANGED <<storeVars, res, cursorVars, signerVars>>

\* Lines 89-105: dir resolved, root reset, env.Clean().  The environment and
\* the files the call will read are fixed here.
InitBegin(dir, wd, os, files) ==
    /\ ipc = "idle"
    /\ Abs(dir, wd)[2] = "nil"
    /\ idir' = Abs(dir, wd)[1]
    /\ root' = ""
    /\ Clean
    /\ osenv' = os /\ fs' = files
    /\ ipc' = "os" /\ ierr' = "nil" /\ appEnv' = ""
    /\ UNCHANGED <<res, cursorVars, signerVars>>

\* Line 115: env.Save(result) takes the lock.
InitSaveOS ==
    /\ ipc = "os"
    /\ SaveLock(ParseEnviron(osenv))
    /\ UNCHANGED <<initVars, res, cursorVars, signerVars>>

\* A turn of the loop of the Save in progress.
InitSaveStep ==
    /\ ipc # "idle"
    /\ SaveEntry
    /\ UNCHANGED <<initVars, res, cursorVars, signerVars>>

\* The Save in progress returns, and with it env.Load and the stage.
InitSaveDone ==
    /\ ipc # "idle"
    /\ SaveUnlock
    /\ Proceed
    /\ UNCHANGED <<idir, osenv, fs, appEnv, res, cursorVars, signerVars>>

\* loadEnv: the file does not exist, the error is dropped.
InitLoadMissing ==
    /\ ipc \in {"env", "envlocal", "app", "applocal"} /\ mu = "free"
    /\ ReadFile(FileOf(ipc)).kind = "missing"
    /\ Proceed
    /\ UNCHANGED <<idir, osenv, fs, appEnv, storeVars, res, cursorVars, signerVars>>

\* loadEnv returns an error other than not-exist; InitWithDir returns it and
\* the deferred function runs.
InitLoadBad ==
    /\ ipc \in {"env", "envlocal", "app", "applocal"} /\ mu = "free"
    /\ ReadFile(FileOf(ipc)).kind = "bad"
    /\ ierr' = "read" /\ ipc' = "idle"
    /\ rollback
    /\ UNCHANGED <<idir, osenv, fs, appEnv, res, cursorVars, signerVars>>

\* environ.Load: godotenv.Read succeeded, e.Save(data) takes the lock.
InitLoadOk ==
    /\ ipc \in {"env", "envlocal", "app", "applocal"}
    /\ ReadFile(FileOf(ipc)).kind = "ok"
    /\ SaveLock(ReadFile(FileOf(ipc)).data)
    /\ UNCHANGED <<initVars, res, cursorVars, signerVars>>

\* Lines 124-125: appEnv := String("APP_ENV", "prod"); an empty appEnv would
\* return with err == nil.
InitReadAppEnv ==
    /\ ipc = "appenv" /\ mu = "free"
    /\ appEnv' = innerString(lookup("APP_ENV"), <<"prod">>)
    /\ IF Len(appEnv') > 0
       THEN /\ ipc' = "app" /\ UNCHANGED <<ierr, root>>
       ELSE /\ ipc' = "idle" /\ ierr' = "nil" /\ root' = idir
    /\ UNCHANGED <<idir, osenv, fs, storeVars, res, cursorVars, signerVars>>

(***************************************************************************)
(* SpecInit: InitWithDir called again and again, each call with any        *)
(* directory, environment and files from the sets below.                   *)
(***************************************************************************)
\* <<dir, working directory>>; the working directory is "" when os.Getwd fails.
DirInputs == {<<".", "">>, <<".", "/cwd">>, <<"/app", "/cwd">>}
OsEnvs   == {<<>>, <<"APP_ENV=", "X= o">>, <<"APP_ENV=DEV", "X=o=1">>}
FileNames ==
    {".env", ".env.local", ".env.dev", ".env.dev.local", ".env.DEV", ".env.prod"}
FileSets ==
    {[n \in FileNames |->
         CASE n = ".env"            -> a
           [] n = ".env.local"      -> b
           [] n = ".env.dev"        -> c
           [] n = ".env.dev.local"  -> d
           [] n = ".env.DEV"        -> e
           [] n = ".env.prod"       -> f] :
        a \in {Missing, Bad, File([X |-> "e"])},
        b \in {Missing, Bad, File([APP_ENV |-> "dev", X |-> "l"])},
        c \in {Missing, Bad, File([X |-> "d"])},
        d \in {Missing, Bad, File([X |-> ""])},
        e \in {Missing, File([X |-> "D"])},
        f \in {Missing, File([X |-> "p"])}}

NextInit ==
    \/ \E d \in DirInputs : InitAbsFail(d[1], d[2])
    \/ \E d \in DirInputs : \E os \in OsEnvs : \E files \in FileSets :
          InitBegin(d[1], d[2], os, files)
    \/ InitSaveOS
    \/ InitSaveStep
    \/ InitSaveDone
    \/ InitLoadMissing
    \/ InitLoadBad
    \/ InitLoadOk
    \/ InitReadAppEnv

SpecInit == Init /\ [][NextInit]_vars

\* m1 with the entries of m2 laid over it.
Over(m1, m2) ==
    [k \in DOMAIN m1 \cup DOMAIN m2 |-> IF k \in DOMAIN m2 THEN m2[k] ELSE m1[k]]
\* What a source contributes: the map of a readable file, nothing otherwise.
Source(name) == ReadFile(name).data
\* The store as a map.
StoreMap == [k \in {keys[i] : i \in 1..Len(keys)} |-> Stored(k)]
\* OS environment, .env and .env.local merged, and the APP_ENV they give.
BaseMerge == Over(Over(ParseEnviron(osenv), Source(".env")), Source(".env.local"))
EffectiveAppEnv ==
    IF "APP_ENV" \in DOMAIN BaseMerge /\ BaseMerge["APP_ENV"] # ""
    THEN BaseMerge["APP_ENV"] ELSE "prod"
\* All five sources merged, the last two named with suffix sfx.
FullMerge(sfx) ==
    Over(Over(BaseMerge, Source(".env." \o sfx)), Source(".env." \o sfx \o ".local"))
Returned == ipc = "idle" /\ ierr # "none"

\* C3: when InitWithDir returns the error of a failed file load, root is
\* empty and the store is empty; when it returns nil, root is the resolved
\* absolute directory; and at every return either root and store are both
\* empty or root is set and the store holds the complete merge of the sources.
C3_AllOrNothing ==
    Returned =>
        /\ ierr = "read" => root = "" /\ keys = <<>> /\ values = <<>>
        /\ ierr = "nil" => root = idir /\ HasPrefix(root, "/")
        /\ \/ root = "" /\ keys = <<>> /\ values = <<>>
           \/ root # "" /\ StoreMap = FullMerge(ToLower(EffectiveAppEnv))

\* The fourth load failed after the OS environment and three files had been
\* saved in that call: root and store are empty.
C3_Witness ==
    /\ Returned /\ ierr = "read"
    /\ osenv # <<>>
    /\ ReadFile(".env").kind = "ok" /\ ReadFile(".env.local").kind = "ok"
    /\ ReadFile(".env.dev").kind = "ok" /\ ReadFile(".env.dev.local").kind = "bad"
    /\ root = "" /\ keys = <<>>

=============================================================================
